---- MODULE Spec2Model ----
(***************************************************************************)
(* Model of backend/research_agent.py: ResearchAgent._parse_research_note  *)
(* and the helpers it uses.  Texts are strings; the Python string methods  *)
(* the parser relies on (strip, upper, startswith, replace, find, split,   *)
(* join, slicing) are defined below as they compute.                       *)
(***************************************************************************)
EXTENDS Integers, Sequences, FiniteSets, TLC

VARIABLES pc, raw_text, lines, idx, locals, result, raised, first,
          fn, arg, ret,
          rr_pc, query, search_results, raw_output, rr_result, rr_error, calls

\* The calls of _parse_research_note.
parserVars == <<pc, raw_text, lines, idx, locals, result, raised, first>>

\* One application of a helper method: its name, its arguments and what it
\* returned, both as records.
fnVars == <<fn, arg, ret>>

\* One call of run_research: its position, its locals, the note it returned
\* or the message of the exception that left it, and the collaborators it has
\* invoked so far.
runVars == <<rr_pc, query, search_results, raw_output, rr_result, rr_error, calls>>

vars == <<parserVars, fnVars, runVars>>

(***************************************************************************)
(* Python string methods                                                   *)
(***************************************************************************)

\* The white space of Python among the characters a string of this model can
\* hold (U+0000 to U+00FF): space, tab, line feed, vertical tab, form feed,
\* carriage return, the separators U+001C to U+001F, next line (U+0085) and
\* the no-break space (U+00A0).  str.isspace() and the class \s of re are
\* true of exactly these.
WhiteSpace ==
    {" ", "\t", "\n", "\r", "\f", "", "", "", "", "", "", " "}

\* str.strip() with no argument removes leading and trailing whitespace.
IsSpace(c) == c \in WhiteSpace

RECURSIVE LStrip(_)
LStrip(s) ==
    IF s # "" /\ IsSpace(SubSeq(s, 1, 1)) THEN LStrip(SubSeq(s, 2, Len(s))) ELSE s

RECURSIVE RStrip(_)
RStrip(s) ==
    IF s # "" /\ IsSpace(SubSeq(s, Len(s), Len(s)))
    THEN RStrip(SubSeq(s, 1, Len(s) - 1))
    ELSE s

Strip(s) == RStrip(LStrip(s))

StartsWith(s, p) == Len(s) >= Len(p) /\ SubSeq(s, 1, Len(p)) = p

\* str.startswith(tuple): true when any member is a prefix.
StartsWithAny(s, ps) == \E p \in ps : StartsWith(s, p)

LowerChars == "abcdefghijklmnopqrstuvwxyz"
UpperChars == "ABCDEFGHIJKLMNOPQRSTUVWXYZ"

\* The lower-case letters of U+00E0 to U+00FE with their upper-case letters.
LowerLatin == "àáâãäåæçèéêëìíîïðñòóôõöøùúûüýþ"
UpperLatin == "ÀÁÂÃÄÅÆÇÈÉÊËÌÍÎÏÐÑÒÓÔÕÖØÙÚÛÜÝÞ"

UpperMap ==
    LET lower == LowerChars \o LowerLatin
        upper == UpperChars \o UpperLatin
    IN  [c \in {SubSeq(lower, i, i) : i \in 1..Len(lower)} |->
            LET i == CHOOSE k \in 1..Len(lower) : SubSeq(lower, k, k) = c
            IN  SubSeq(upper, i, i)]

\* The characters of a text in order, one string for each.
Chars(s) == [i \in 1..Len(s) |-> SubSeq(s, i, i)]

\* The Latin capital letter Y with diaeresis, U+0178.  No string literal can
\* hold the character itself (a character above U+00FF whose low byte is below
\* 80 hexadecimal is a lexical error), so an upper-cased text is kept as the
\* sequence of its characters and this one character is written by its name.
CapitalYDiaeresis == "U+0178"

\* str.upper() of one character of U+0000 to U+00FF, as the sequence of the
\* characters of the result.  The sharp s becomes "SS", the micro sign
\* (U+00B5) the Greek capital mu (U+039C) and U+00FF becomes U+0178.
UpperChar(c) ==
    IF c = "ß" THEN <<"S", "S">>
    ELSE IF c = "µ" THEN <<"Μ">>
    ELSE IF c = "ÿ" THEN <<CapitalYDiaeresis>>
    ELSE IF c \in DOMAIN UpperMap THEN <<UpperMap[c]>>
    ELSE <<c>>

\* str.upper() as the sequence of the characters of the result, computed on
\* the two halves of the text.
RECURSIVE Upper(_)
Upper(s) ==
    IF s = "" THEN <<>>
    ELSE IF Len(s) = 1 THEN UpperChar(s)
    ELSE LET h == Len(s) \div 2
         IN  Upper(SubSeq(s, 1, h)) \o Upper(SubSeq(s, h + 1, Len(s)))

\* str.find(sub): lowest 0-based index of sub in s, or -1.
Find(s, sub) ==
    LET n == Len(s) - Len(sub)
        At(i) == SubSeq(s, i + 1, i + Len(sub)) = sub
    IN  IF \E i \in 0..n : At(i)
        THEN CHOOSE i \in 0..n : At(i) /\ \A j \in 0..(i - 1) : ~At(j)
        ELSE -1

\* sub in s
Contains(s, sub) == Find(s, sub) # -1

\* s[a:b] for 0 <= a and 0 <= b.
Slice(s, a, b) ==
    LET hi == IF b > Len(s) THEN Len(s) ELSE b
    IN  IF a >= hi THEN "" ELSE SubSeq(s, a + 1, hi)

\* str.replace(old, new): every non-overlapping occurrence, left to right.
RECURSIVE Replace(_, _, _)
Replace(s, old, new) ==
    LET i == Find(s, old)
    IN  IF i = -1 THEN s
        ELSE SubSeq(s, 1, i) \o new
             \o Replace(SubSeq(s, i + Len(old) + 1, Len(s)), old, new)

\* str.split(sep): the list of the pieces between the occurrences of sep.
RECURSIVE Split(_, _)
Split(s, sep) ==
    LET i == Find(s, sep)
    IN  IF i = -1 THEN <<s>>
        ELSE <<SubSeq(s, 1, i)>> \o Split(SubSeq(s, i + Len(sep) + 1, Len(s)), sep)

\* str.split(sep, 1): at most one split, at the first occurrence.
SplitOnce(s, sep) ==
    LET i == Find(s, sep)
    IN  IF i = -1 THEN <<s>>
        ELSE <<SubSeq(s, 1, i), SubSeq(s, i + Len(sep) + 1, Len(s))>>

\* sep.join(parts)
RECURSIVE Join(_, _)
Join(parts, sep) ==
    IF parts = <<>> THEN ""
    ELSE IF Len(parts) = 1 THEN parts[1]
    ELSE parts[1] \o sep \o Join(Tail(parts), sep)

\* str(n) for the small naturals the parser formats.
Digits == "0123456789"

RECURSIVE IntToStr(_)
IntToStr(n) ==
    IF n < 10 THEN SubSeq(Digits, n + 1, n + 1)
    ELSE IntToStr(n \div 10) \o SubSeq(Digits, (n % 10) + 1, (n % 10) + 1)

(***************************************************************************)
(* Constants of the parser                                                 *)
(***************************************************************************)

DefaultTitle == "Research Results"
DefaultSummary == "No summary available"
ErrorSummary == "Error parsing research results"

MinTextLen == 10
MinPointLen == 10
MinTitleLen == 3
MinParagraphLen == 50
MinSources == 3

RequiredFields == {"title", "summary", "key_points", "sources"}

(***************************************************************************)
(* The source-line rules of the scan (the SOURCES section)                 *)
(***************************************************************************)

\* The text after the "[n]" index: line.split(']', 1)[1].strip(), or the whole
\* line when it holds no "]".
ContentAfterBracket(line) ==
    IF Contains(line, "]") THEN Strip(SplitOnce(line, "]")[2]) ELSE Strip(line)

\* url_start = content.find('(') + 1
UrlStart(content) == Find(content, "(") + 1

\* The last ")" instead of the first.
UrlEndLast(content) ==
    LET hits == {i \in 0..(Len(content) - 1) : SubSeq(content, i + 1, i + 1) = ")"}
    IN  IF hits = {} THEN -1 ELSE CHOOSE i \in hits : \A j \in hits : i >= j

\* url_end = content.find(')')
UrlEnd(content) == Find(content, ")")

\* The three formats, tried in order: Title (URL), Title - URL, title only.
\* Yields the title and the URL as extracted, before any clean-up.
ExtractTitleUrl(content) ==
    IF Contains(content, "(") /\ Contains(content, ")")
    THEN [title |-> Strip(Slice(content, 0, Find(content, "("))),
          url   |-> Strip(Slice(content, UrlStart(content), UrlEnd(content)))]
    ELSE IF Contains(content, " - ")
    THEN LET parts == SplitOnce(content, " - ")
         IN  [title |-> Strip(parts[1]), url |-> Strip(parts[2])]
    ELSE [title |-> Strip(content), url |-> ""]

\* An empty title becomes "Source {len(sources) + 1}".
CleanTitle(source_title, nsources) ==
    IF source_title = "" THEN "Source " \o IntToStr(nsources + 1) ELSE source_title

\* A clean-up that keeps a URL without scheme and without "." as it is.
CleanUrlKeepsBare(source_url) ==
    IF source_url = "" THEN ""
    ELSE LET u == Replace(Replace(source_url, " ", ""), "%20", "")
         IN  IF StartsWithAny(u, {"http://", "https://"}) THEN u
             ELSE IF Contains(u, ".") THEN "https://" \o u
             ELSE u

\* Spaces and "%20" are removed; a URL without a scheme gets "https://" when it
\* holds a "." and is emptied otherwise.
CleanUrl(source_url) ==
    IF source_url = "" THEN ""
    ELSE LET u == Replace(Replace(source_url, " ", ""), "%20", "")
         IN  IF StartsWithAny(u, {"http://", "https://"}) THEN u
             ELSE IF Contains(u, ".") THEN "https://" \o u
             ELSE ""

\* A test that also keeps a title of exactly MinTitleLen characters.
TitleAcceptedAtThree(source_title) ==
    source_title # "" /\ Len(source_title) >= MinTitleLen

\* Only a title longer than MinTitleLen is kept.
TitleAccepted(source_title) == source_title # "" /\ Len(source_title) > MinTitleLen

\* The sources list after one line of the SOURCES section that starts with "[".
ParseSourceLine(line, sources) ==
    LET ext   == ExtractTitleUrl(ContentAfterBracket(line))
        title == CleanTitle(ext.title, Len(sources))
        url   == CleanUrl(ext.url)
    IN  IF TitleAccepted(title)
        THEN Append(sources, [title |-> title, url |-> url])
        ELSE sources

(***************************************************************************)
(* The scan: one line of the for loop                                      *)
(***************************************************************************)

\* The locals of a thread that has made no call yet.
NoLocals ==
    [title           |-> "",
     summary         |-> "",
     key_points      |-> <<>>,
     sources         |-> <<>>,
     current_section |-> "none",
     summary_lines   |-> <<>>]

\* A call that keeps the sources list of the call before it.
StaleLocals(old) ==
    [title           |-> DefaultTitle,
     summary         |-> DefaultSummary,
     key_points      |-> <<>>,
     sources         |-> old.sources,
     current_section |-> "none",
     summary_lines   |-> <<>>]

\* The local variables of a call as first assigned.  The argument is the frame
\* the previous call left behind: nothing of it is read.
FreshLocals(old) ==
    [title           |-> DefaultTitle,
     summary         |-> DefaultSummary,
     key_points      |-> <<>>,
     sources         |-> <<>>,
     current_section |-> "none",
     summary_lines   |-> <<>>]

\* The length test with the threshold one too low.
TooShortBelowNine(raw) == raw = "" \/ Len(Strip(raw)) < MinTextLen - 1

\* if not raw_text or len(raw_text.strip()) < 10
TooShort(raw) == raw = "" \/ Len(Strip(raw)) < MinTextLen

IsTitleMarker(line)     == StartsWith(Upper(line), Chars("TITLE:"))
IsSummaryMarker(line)   == StartsWith(Upper(line), Chars("SUMMARY:"))
IsKeyPointsMarker(line) == StartsWith(Upper(line), Chars("KEY POINTS:"))
IsSourcesMarker(line)   == StartsWith(Upper(line), Chars("SOURCES:"))
IsGuidelines(line)      == StartsWith(Upper(line), Chars("IMPORTANT GUIDELINES:"))

\* The break of the loop: the guidelines marker, unless an earlier branch of
\* the if/elif chain took the line.
IsBreak(rawline) ==
    LET line == Strip(rawline)
    IN  /\ ~IsTitleMarker(line) /\ ~IsSummaryMarker(line)
        /\ ~IsKeyPointsMarker(line) /\ ~IsSourcesMarker(line)
        /\ IsGuidelines(line)

SummaryLineExcluded ==
    {"-", "[", "TITLE:", "SUMMARY:", "KEY POINTS:", "SOURCES:", "IMPORTANT GUIDELINES:"}

JoinedSummary(summary_lines) == Strip(Join(summary_lines, " "))

\* The title taken from a TITLE: line.
TitleOf(line) == Strip(Replace(line, "TITLE:", ""))

\* The key point taken from a bullet line.
PointOf(line) == Strip(Replace(line, "-", ""))

\* The flush of the KEY POINTS: branch.
FlushAtKeyPoints(f) ==
    IF f.summary_lines # <<>> THEN JoinedSummary(f.summary_lines) ELSE f.summary

\* The flush of the SOURCES: branch, of the guidelines branch and after the loop.
FlushIfDefault(f) ==
    IF f.summary_lines # <<>> /\ f.summary = DefaultSummary
    THEN JoinedSummary(f.summary_lines)
    ELSE f.summary

\* The body of the loop for one line: the locals after it.
ScanLineStep(f, rawline) ==
    LET line == Strip(rawline)
    IN  IF IsTitleMarker(line)
        THEN [f EXCEPT !.title = TitleOf(line), !.current_section = "title"]
        ELSE IF IsSummaryMarker(line)
        THEN [f EXCEPT !.current_section = "summary", !.summary_lines = <<>>]
        ELSE IF IsKeyPointsMarker(line)
        THEN [f EXCEPT !.current_section = "key_points", !.summary = FlushAtKeyPoints(f)]
        ELSE IF IsSourcesMarker(line)
        THEN [f EXCEPT !.current_section = "sources", !.summary = FlushIfDefault(f)]
        ELSE IF IsGuidelines(line)
        THEN [f EXCEPT !.summary = FlushIfDefault(f)]
        ELSE IF /\ f.current_section = "summary"
                /\ line # ""
                /\ ~StartsWithAny(line, SummaryLineExcluded)
        THEN [f EXCEPT !.summary_lines = Append(@, line)]
        ELSE IF f.current_section = "key_points" /\ StartsWith(line, "-")
        THEN IF PointOf(line) # "" /\ Len(PointOf(line)) > MinPointLen
             THEN [f EXCEPT !.key_points = Append(@, PointOf(line))]
             ELSE f
        ELSE IF f.current_section = "sources" /\ StartsWith(line, "[")
        THEN [f EXCEPT !.sources = ParseSourceLine(line, @)]
        ELSE f

(***************************************************************************)
(* After the scan                                                          *)
(***************************************************************************)

ParagraphExcluded == {"TITLE:", "KEY POINTS:", "SOURCES:", "IMPORTANT"}

\* The first part of raw_text.split('\n\n') that is longer than
\* MinParagraphLen and starts with none of the excluded prefixes.
RECURSIVE FirstParagraph(_)
FirstParagraph(parts) ==
    IF parts = <<>> THEN DefaultSummary
    ELSE IF /\ Len(Strip(parts[1])) > MinParagraphLen
            /\ ~StartsWithAny(Strip(parts[1]), ParagraphExcluded)
    THEN Strip(parts[1])
    ELSE FirstParagraph(Tail(parts))

\* "Final check for summary", "Clean up summary" and the extraction of a
\* summary from the raw text.
FinalSummary(f, raw) ==
    LET s1 == FlushIfDefault(f)
        s2 == IF s1 # "" /\ s1 # DefaultSummary
              THEN Strip(Replace(s1, "SUMMARY:", ""))
              ELSE s1
    IN  IF s2 = DefaultSummary THEN FirstParagraph(Split(raw, "\n\n")) ELSE s2

\* The name search_results in _parse_research_note: it is neither a parameter
\* nor a local of the function nor a global of the module, so reading it
\* raises NameError.
SearchResultsBound == FALSE

\* "if len(sources) < 3 and search_results": the right operand is read only
\* when the left one is true.
FallbackRaises(f) == Len(f.sources) < MinSources /\ ~SearchResultsBound

\* The note built from the locals.
NoteOf(f) ==
    [title      |-> f.title,
     summary    |-> f.summary,
     key_points |-> f.key_points,
     sources    |-> f.sources]

\* An error note that lacks the sources key.
ErrorNoteWithoutSources ==
    [k \in {"title", "summary", "key_points"} |->
        IF k = "title" THEN DefaultTitle
        ELSE IF k = "summary" THEN ErrorSummary
        ELSE <<>>]

\* The note of the except branch.
ErrorNote ==
    [title      |-> DefaultTitle,
     summary    |-> ErrorSummary,
     key_points |-> <<>>,
     sources    |-> <<>>]

\* A validation that does not ask for the sources key.
ValidateIgnoringSources(output) ==
    IF \E k \in RequiredFields \ {"sources"} : k \notin DOMAIN output
    THEN "ValueError" ELSE "ok"

\* _validate_research_output: "ValueError" when a required key is absent.
ValidateResearchOutput(output) ==
    IF \E k \in RequiredFields : k \notin DOMAIN output THEN "ValueError" ELSE "ok"

\* required_fields, in the order of the loop.
RequiredOrder == <<"title", "summary", "key_points", "sources">>

\* The message of the ValueError: it names the first absent field.
ValidationError(output) ==
    LET Absent(i) == RequiredOrder[i] \notin DOMAIN output
    IN  "Missing required field: "
        \o RequiredOrder[CHOOSE i \in 1..Len(RequiredOrder) :
                             Absent(i) /\ \A j \in 1..(i - 1) : ~Absent(j)]

\* The value under key k draws a warning: an empty or generic title or
\* summary, no key points, no sources.
DrawsWarning(k, value) ==
    IF k = "title" THEN value \in {"", DefaultTitle}
    ELSE IF k = "summary" THEN value \in {"", DefaultSummary}
    ELSE value = <<>>

\* The fields about which a warning is logged; the four keys are present when
\* the checks of lines 417-427 are reached.
ValidationWarnings(output) ==
    {k \in RequiredFields \cap DOMAIN output : DrawsWarning(k, output[k])}

\* The whole of _parse_research_note, run alone on raw.
RECURSIVE ScanAll(_, _, _)
ScanAll(f, ls, i) ==
    IF i > Len(ls) THEN f
    ELSE IF IsBreak(ls[i]) THEN ScanLineStep(f, ls[i])
    ELSE ScanAll(ScanLineStep(f, ls[i]), ls, i + 1)

ParseResearchNote(raw) ==
    LET f0 == FreshLocals(NoLocals)
    IN  IF TooShort(raw) THEN NoteOf(f0)
        ELSE LET f1 == ScanAll(f0, Split(raw, "\n"), 1)
                 f2 == [f1 EXCEPT !.summary = FinalSummary(f1, raw)]
             IN  IF FallbackRaises(f2) THEN ErrorNote ELSE NoteOf(f2)

(***************************************************************************)
(* _is_valid_url                                                           *)
(***************************************************************************)

MinUrlLen == 15
MaxUrlLen == 500

\* The grave accent, taken from a string in which an apostrophe follows it.
GraveAccent == SubSeq("`'", 1, 1)

\* The characters the character classes of the URL patterns exclude: white
\* space (\s) and < > " { } | \ ^ [ ] and the grave accent.
UrlForbidden ==
    WhiteSpace \cup {"<", ">", "\"", "{", "}", "|", "\\", "^", "[", "]", GraveAccent}

AllAllowed(s) == \A i \in 1..Len(s) : SubSeq(s, i, i) \notin UrlForbidden

\* [a-zA-Z]
IsLetter(c) ==
    \E i \in 1..Len(LowerChars) :
        SubSeq(LowerChars, i, i) = c \/ SubSeq(UpperChars, i, i) = c

AllLetters(s) == \A i \in 1..Len(s) : IsLetter(SubSeq(s, i, i))

\* The lengths of the prefixes of s at whose end "$" matches: the end of s,
\* and the place before a final newline.
DollarEnds(s) ==
    {Len(s)} \cup (IF s # "" /\ SubSeq(s, Len(s), Len(s)) = "\n" THEN {Len(s) - 1} ELSE {})

\* u as a whole is: "http://" or "https://", one or more allowed characters,
\* a ".", two or more letters and, optionally, a "/" with allowed characters.
\* The allowed characters before the "." include "/" and ".".
MatchesUrlBody(u) ==
    \E p \in {7, 8} :
        /\ StartsWith(u, IF p = 7 THEN "http://" ELSE "https://")
        /\ LET r == SubSeq(u, p + 1, Len(u))
           IN  \E i \in 2..Len(r) :
                   /\ SubSeq(r, i, i) = "."
                   /\ AllAllowed(SubSeq(r, 1, i - 1))
                   /\ \E k \in (i + 2)..Len(r) :
                          /\ AllLetters(SubSeq(r, i + 1, k))
                          /\ \/ k = Len(r)
                             \/ /\ SubSeq(r, k + 1, k + 1) = "/"
                                /\ AllAllowed(SubSeq(r, k + 2, Len(r)))

\* re.match(url_pattern, url)
MatchesUrlPattern(url) ==
    \E e \in DollarEnds(url) : MatchesUrlBody(SubSeq(url, 1, e))

\* The invalid patterns that may occur anywhere, and those anchored by "$".
InvalidAnywhere == {"no%20url", "example.com", "placeholder", "...", "%20%20"}
InvalidAtEnd == {"http://", "https://"}

\* re.search(pattern, url, re.IGNORECASE) for some invalid pattern.
HasInvalidPattern(url) ==
    \/ \E q \in InvalidAnywhere : Contains(Upper(url), Upper(q))
    \/ \E q \in InvalidAtEnd : \E e \in DollarEnds(url) :
          e >= Len(q) /\ Upper(SubSeq(url, e - Len(q) + 1, e)) = Upper(q)

\* _is_valid_url(url) for a string.  No step of it raises on a string, so the
\* except branch returns False only for arguments that are not strings.
IsValidUrl(url) ==
    IF ~MatchesUrlPattern(url) THEN FALSE
    ELSE IF HasInvalidPattern(url) THEN FALSE
    ELSE IF Len(url) < MinUrlLen \/ Len(url) > MaxUrlLen THEN FALSE
    ELSE TRUE

(***************************************************************************)
(* Inputs                                                                  *)
(***************************************************************************)

\* Bounds of the model.
NumThreads == 2
MaxSrcLines == 3

Threads == 1..NumThreads

\* Bodies of SOURCES lines, in the formats the scan distinguishes.
SrcPool ==
    << "Health AI Report (https://healthai.example.org/report)",
       "Example Paper (https://example1.com/article)",
       "Study Notes (https://news.site.org/a1)",
       "Example Paper - example2.com",
       "Untitled",
       "Report (v1.2) (https://x.org/r)",
       "(https://a.io/p)",
       "ab (c.d)",
       "Part a) Intro (intro.org",
       "Alpha Study - Beta Lab - gamma.io/x",
       "Draft (v2 - draft.org",
       "Draft (unfinished",
       "Spaced Out (https://sp aced.org/a%20b c)",
       "No Dot Here (localhost)",
       "Plain Scheme (http://h)",
       "Mixed - HTTP://Upper.org" >>

\* k consecutive pool entries from the i-th on (cyclically), numbered [1]..[k].
SrcLines(i, k) ==
    [j \in 1..k |->
        "[" \o IntToStr(j) \o "] " \o SrcPool[((i + j - 2) % Len(SrcPool)) + 1]]

SrcChoices ==
    {SrcLines(i, k) : i \in 1..Len(SrcPool), k \in 0..MaxSrcLines}

Bullets(points) == [j \in 1..Len(points) |-> "- " \o points[j]]

\* A note in the template of the prompt: the four sections in order, each with
\* a body.  inline is the summary text on the SUMMARY: line, more the summary
\* lines that follow it.
Render(d) ==
    "TITLE: " \o d.title \o "\n\n"
    \o "SUMMARY:" \o (IF d.inline = "" THEN "" ELSE " " \o d.inline) \o "\n"
    \o Join(d.more, "\n") \o (IF d.more = <<>> THEN "" ELSE "\n") \o "\n"
    \o "KEY POINTS:\n" \o Join(Bullets(d.points), "\n") \o "\n\n"
    \o "SOURCES:\n" \o Join(d.srcs, "\n")

SummaryChoices ==
    { [inline |-> "AI helps diagnosis.", more |-> <<"It improves speed.">>],
      [inline |-> "", more |-> <<"AI helps diagnosis.", "It improves speed.">>] }

WellFormed ==
    { [title  |-> "AI in Health",
       inline |-> sm.inline,
       more   |-> sm.more,
       points |-> <<"Faster diagnosis times reported", "Broader access to specialists">>,
       srcs   |-> sl] : sm \in SummaryChoices, sl \in SrcChoices }

\* The body each section of a well-formed note holds: the summary is the text
\* on the marker's line and the lines after it, joined with single spaces.
SummaryBody(d) ==
    Join((IF d.inline = "" THEN <<>> ELSE <<d.inline>>) \o d.more, " ")

\* The note of the parser's unit test, indented as there.
TestValidInput ==
    "\n        TITLE: Test Research Title\n        \n"
    \o "        SUMMARY: This is a comprehensive summary of the research findings.\n"
    \o "        \n        KEY POINTS:\n"
    \o "        - First important point about the research\n"
    \o "        - Second key finding with details\n"
    \o "        - Third significant insight\n        \n        SOURCES:\n"
    \o "        [1] Research Paper 1 (https://example1.com)\n"
    \o "        [2] News Article 2 (https://example2.com)\n"
    \o "        [3] Academic Source 3 (https://example3.com)\n        "

TestMalformedInput == "Invalid format without proper sections"

\* Bullets short and long, with and without inner hyphens, and three sources.
HyphenInput ==
    "KEY POINTS:\n- ok\n- This is a substantial point\n- State-of-the-art models\n"
    \o "- a-b-c-d-e-f\n-no space after the bullet\n"
    \o "SOURCES:\n[1] One More (a.io)\n[2] Two More (b.io)\n[3] Three More (c.io)"

\* Source lines with titles of three and four characters and without a title.
TitleLenInput ==
    "SOURCES:\n[1] abc (c.d)\n[2] abcd (c.d)\n[3] (https://a.io/p)\n[4]   \n"
    \o "[5] Long Enough - x.org\n[6] (b.io)\n[7] x"

\* Markers in upper, mixed and lower case, and a title that holds the marker.
CaseInput ==
    "TITLE: The TITLE: Problem\nTitle: Mixed Case\nsummary:\nlower body\n"
    \o "Key Points:\n- a substantial point\n"
    \o "sources:\n[1] One More (a.io)\n[2] Two More (b.io)\n[3] Three More (c.io)"

\* Two SUMMARY: sections: the first closed by KEY POINTS: and the second by
\* SOURCES:, and the other way round.
ThreeSources == "[1] One More (a.io)\n[2] Two More (b.io)\n[3] Three More (c.io)"

SecondSummaryBeforeSources ==
    "SUMMARY:\nfirst body\nmore of it\nKEY POINTS:\n- a substantial point\n"
    \o "SUMMARY:\nsecond body\nSOURCES:\n" \o ThreeSources

SecondSummaryBeforeKeyPoints ==
    "SUMMARY:\nfirst body\nmore of it\nSOURCES:\n" \o ThreeSources
    \o "\nSUMMARY:\nsecond body\nKEY POINTS:\n- a substantial point"

\* A note that ends with the terminator, and the same note with a paragraph
\* after the terminator.
TerminatedInput ==
    "TITLE: Ended Early\nSOURCES:\n" \o ThreeSources \o "\nIMPORTANT GUIDELINES:"

AfterTerminatorInput ==
    TerminatedInput
    \o "\n\nThis paragraph comes after the terminator and is longer than fifty characters."

\* Markers without a body: TITLE: and SUMMARY:, and SUMMARY: alone.
EmptyBodiesInput ==
    "TITLE:\nSUMMARY:\nKEY POINTS:\n- a substantial point\nSOURCES:\n" \o ThreeSources

EmptySummaryInput ==
    "SUMMARY:\n\nKEY POINTS:\n- a substantial point\nSOURCES:\n" \o ThreeSources

EmptySummaryOneParagraph ==
    "SUMMARY:\nKEY POINTS:\n- a substantial point\nSOURCES:\n" \o ThreeSources

\* Notes without a SUMMARY: section, whose first paragraph is long: plain
\* prose, and prose that begins with the word IMPORTANT.
ProseInput ==
    "Plain prose of more than fifty characters opens this research note.\n\n"
    \o "SOURCES:\n" \o ThreeSources

ImportantProseInput ==
    "IMPORTANT findings of more than fifty characters open this research note.\n\n"
    \o "SOURCES:\n" \o ThreeSources

\* Repeated bullet and source lines, and bullet and bracket lines outside
\* their sections: with three accepted sources, and with two.
RepeatInput ==
    "- a bullet before any section\n[0] Bracket Before (x.io)\n"
    \o "KEY POINTS:\n- a repeated key point\n[9] Bracket Among Points (y.io)\n"
    \o "- another key point here\n- a repeated key point\n"
    \o "SOURCES:\n[1] Same Name (a.io)\n- a bullet among sources\n"
    \o "[2] Other Name (b.io)\n[1] Same Name (a.io)"

FewRepeatInput ==
    "KEY POINTS:\n- a repeated key point\n- a repeated key point\n"
    \o "SOURCES:\n[1] Same Name (a.io)\n[1] Same Name (a.io)"

\* White space other than blank, tab and line ends around the text and its
\* lines: nine characters after vertical tabs, and a note whose lines begin
\* or end with a vertical tab, a no-break space, U+0085 or U+001C.
VerticalTabShort == "123456789"

WhiteSpaceInput ==
    "TITLE: Vertical Tab Title\n SOURCES:\n"
    \o "[1] Alpha Report (https://alpha.org/r)\n"
    \o "[2] Beta Report (https://beta.org/r)\n[3] Gamma Report (https://gamma.org/r)"

\* Texts without the template: empty, blank, below, at and above the length
\* threshold, and with a terminator.
\* Source lines whose only ")" precedes the "(", with and without " - ", and
\* one with a ")" alone.
ReversedParenInput ==
    "SOURCES:\n[1] Part a) Intro - x.org (draft\n[2] Part b) Notes (notes.org\n"
    \o "[3] Sec c) End\n[4] One More (a.io)"

PlainInputs ==
    { "", "   \n\t ", "short", "123456789", "  123456789 \n", "1234567890",
      TestMalformedInput,
      TestValidInput,
      "title: lower case\nSOURCES:\n[1] One More (a.io)\n[2] Two More (b.io)\n[3] Three More (c.io)\nIMPORTANT GUIDELINES:\n[4] Four More (d.io)",
      HyphenInput, TitleLenInput, CaseInput,
      SecondSummaryBeforeSources, SecondSummaryBeforeKeyPoints,
      TerminatedInput, AfterTerminatorInput,
      EmptyBodiesInput, EmptySummaryInput, EmptySummaryOneParagraph,
      ProseInput, ImportantProseInput, RepeatInput, FewRepeatInput,
      VerticalTabShort, WhiteSpaceInput, ReversedParenInput }

RenderedInputs == {Render(d) : d \in WellFormed}

\* The texts of the concurrent calls.
ConcInputs ==
    { "tiny",
      "TITLE: A\nSOURCES:\n[1] Alpha (a.io)\n[2] Beta (b.io)\n[3] Gamma (c.io)",
      "SUMMARY:\nline one\nKEY POINTS:\n- a substantial point" }

Inputs == PlainInputs \cup RenderedInputs \cup ConcInputs

\* The texts whose first returned note is remembered.
ObservedInputs == ConcInputs

(***************************************************************************)
(* The calls                                                               *)
(***************************************************************************)

\* A value a collaborator of run_research hands back: a text, a list, None,
\* an exception with its message.
Value(kind, v, items) == [kind |-> kind, v |-> v, items |-> items]

\* A local of run_research that is not assigned yet.
Unset == Value("unset", "", <<>>)

\* Every call keeps its locals in one frame of the agent.
SharedFrame(t) == 1

\* The frame in which thread t's call keeps its locals.
FrameOf(t) == t

Init ==
    /\ pc = [t \in Threads |-> "idle"]
    /\ raw_text = [t \in Threads |-> ""]
    /\ lines = [t \in Threads |-> <<>>]
    /\ idx = [t \in Threads |-> 0]
    /\ locals = [t \in Threads |-> NoLocals]
    /\ result = [t \in Threads |-> <<>>]
    /\ raised = [t \in Threads |-> FALSE]
    /\ first = <<>>
    /\ fn = "none" /\ arg = <<>> /\ ret = <<>>
    /\ rr_pc = "idle" /\ query = "" /\ search_results = Unset /\ raw_output = Unset
    /\ rr_result = <<>> /\ rr_error = "" /\ calls = <<>>

\* A return of the call of thread t on raw.  first keeps the text and the note
\* of the first call on an observed text that returned.
Returns(t, raw, note) ==
    /\ pc' = [pc EXCEPT ![t] = "done"]
    /\ result' = [result EXCEPT ![t] = note]
    /\ first' = IF first = <<>> /\ raw \in ObservedInputs THEN <<raw, note>> ELSE first

\* Entry of _parse_research_note(raw): the locals are assigned, and a text that
\* is too short returns the defaults at once.  The note of the thread's
\* previous call has been handed to its caller and is gone.
Call(t, raw) ==
    /\ pc[t] \in {"idle", "done"}
    /\ raw_text' = [raw_text EXCEPT ![t] = raw]
    /\ locals' = [locals EXCEPT ![FrameOf(t)] = FreshLocals(locals[FrameOf(t)])]
    /\ raised' = [raised EXCEPT ![t] = FALSE]
    /\ UNCHANGED <<fnVars, runVars>>
    /\ IF TooShort(raw)
       THEN /\ Returns(t, raw, NoteOf(locals'[FrameOf(t)]))
            /\ lines' = [lines EXCEPT ![t] = <<>>]
            /\ idx' = [idx EXCEPT ![t] = 0]
       ELSE /\ pc' = [pc EXCEPT ![t] = "scan"]
            /\ lines' = [lines EXCEPT ![t] = Split(raw, "\n")]
            /\ idx' = [idx EXCEPT ![t] = 1]
            /\ result' = [result EXCEPT ![t] = <<>>]
            /\ UNCHANGED first

\* One iteration of the for loop.
ScanLine(t) ==
    /\ pc[t] = "scan"
    /\ locals' = [locals EXCEPT ![FrameOf(t)] = ScanLineStep(@, lines[t][idx[t]])]
    /\ idx' = [idx EXCEPT ![t] = @ + 1]
    /\ pc' = [pc EXCEPT ![t] =
                IF IsBreak(lines[t][idx[t]]) \/ idx[t] = Len(lines[t])
                THEN "final" ELSE "scan"]
    /\ UNCHANGED <<raw_text, lines, result, raised, first, fnVars, runVars>>

\* The summary after the loop.
Finalize(t) ==
    /\ pc[t] = "final"
    /\ locals' = [locals EXCEPT ![FrameOf(t)].summary =
                    FinalSummary(locals[FrameOf(t)], raw_text[t])]
    /\ pc' = [pc EXCEPT ![t] = "fallback"]
    /\ UNCHANGED <<raw_text, lines, idx, result, raised, first, fnVars, runVars>>

\* "if len(sources) < 3 and search_results": with fewer than three sources the
\* read of search_results raises and control passes to the except branch; with
\* three or more the condition is false without the read.  The body of the if
\* (lines 339-380, and with it _extract_title_from_context) is therefore
\* entered in no run and is no part of this state machine.
Fallback(t) ==
    /\ pc[t] = "fallback"
    /\ IF FallbackRaises(locals[FrameOf(t)])
       THEN /\ raised' = [raised EXCEPT ![t] = TRUE]
            /\ pc' = [pc EXCEPT ![t] = "except"]
       ELSE /\ pc' = [pc EXCEPT ![t] = "return"]
            /\ UNCHANGED raised
    /\ UNCHANGED <<raw_text, lines, idx, locals, result, first, fnVars, runVars>>

\* return result
Return(t) ==
    /\ pc[t] = "return"
    /\ Returns(t, raw_text[t], NoteOf(locals[FrameOf(t)]))
    /\ UNCHANGED <<raw_text, lines, idx, locals, raised, fnVars, runVars>>

\* An except branch that returns what the scan had collected.
ExceptKeepsPartial(t) ==
    /\ pc[t] = "except"
    /\ Returns(t, raw_text[t], NoteOf(locals[FrameOf(t)]))
    /\ UNCHANGED <<raw_text, lines, idx, locals, raised, fnVars, runVars>>

\* except Exception: return the error note
Except(t) ==
    /\ pc[t] = "except"
    /\ Returns(t, raw_text[t], ErrorNote)
    /\ UNCHANGED <<raw_text, lines, idx, locals, raised, fnVars, runVars>>

\* One caller: the calls of thread 1 follow one another.
Next ==
    \/ \E raw \in Inputs : Call(1, raw)
    \/ ScanLine(1)
    \/ Finalize(1)
    \/ Fallback(1)
    \/ Return(1)
    \/ Except(1)

Spec == Init /\ [][Next]_vars

\* Callers on several threads of one agent: their calls overlap step by step
\* and each thread calls again after its call returned.
NextConc ==
    \/ \E t \in Threads, raw \in ConcInputs : Call(t, raw)
    \/ \E t \in Threads : ScanLine(t)
    \/ \E t \in Threads : Finalize(t)
    \/ \E t \in Threads : Fallback(t)
    \/ \E t \in Threads : Return(t)
    \/ \E t \in Threads : Except(t)

SpecConc == Init /\ [][NextConc]_vars

(***************************************************************************)
(* The helper methods, applied to drawn arguments                          *)
(***************************************************************************)

\* s repeated n times.
RECURSIVE Rep(_, _)
Rep(s, n) ==
    IF n = 0 THEN ""
    ELSE IF n % 2 = 0 THEN LET h == Rep(s, n \div 2) IN h \o h
    ELSE s \o Rep(s, n - 1)

UrlSchemes == {"http://", "https://", "Https://", "ftp://", ""}

UrlHosts ==
    {"news.site.org", "localhost", "example.com", "docs.EXAMPLE.COM", "a.io",
     "site.c", "my site.org", "x.placeholder.net", "no%20url.org", "host.org."}

UrlTails ==
    {"", "/a1", "/page", "/index.html", "/a b", "/a...b", "/a%20%20b", "\n",
     "/x[1]", "/http://", "/a1\n\n"}

\* URLs at the edges of the length limits, bare schemes and the empty string.
UrlEdges ==
    {"", "http://", "https://", "https://a.io/p", "https://a.io/pq",
     "https://news.site.org/" \o Rep("a", MaxUrlLen - 22),
     "https://news.site.org/" \o Rep("a", MaxUrlLen - 21),
     "https://news.site.org/ab", "https://news.site.org/a b",
     "https://news.site.org/a" \o GraveAccent \o "b"}

UrlInputs ==
    {sc \o h \o tl : sc \in UrlSchemes, h \in UrlHosts, tl \in UrlTails} \cup UrlEdges

\* Texts the search tool may return.
Snippets ==
    << "Deep learning improves radiology workflows. Read https://news.site.org/a1 for details.",
       "\"Hospital AI adoption report\" https://healthai.example.org/report" >>

\* The values an output map may hold under each key: informative, the
\* defaults of the parser, and empty.
FieldProfiles ==
    { [title |-> "AI in Health", summary |-> "AI helps diagnosis.",
       key_points |-> <<"Faster diagnosis times reported">>,
       sources |-> <<[title |-> "Study Notes", url |-> "https://news.site.org/a1"]>>,
       extra |-> "more"],
      [title |-> DefaultTitle, summary |-> DefaultSummary,
       key_points |-> <<>>, sources |-> <<>>, extra |-> ""],
      [title |-> "", summary |-> "", key_points |-> <<>>, sources |-> <<>>,
       extra |-> ""] }

\* Output maps with every set of keys among the required ones and one more.
OutputMaps ==
    {[k \in keys |-> prof[k]] :
        keys \in SUBSET (RequiredFields \cup {"extra"}), prof \in FieldProfiles}

\* _validate_research_output(output), applied once.
ApplyValidate(output) ==
    /\ fn = "none"
    /\ fn' = "_validate_research_output"
    /\ arg' = [output |-> output]
    /\ ret' = IF ValidateResearchOutput(output) = "ValueError"
              THEN [raised |-> TRUE, error |-> ValidationError(output), warnings |-> {}]
              ELSE [raised |-> FALSE, error |-> "", warnings |-> ValidationWarnings(output)]
    /\ UNCHANGED <<parserVars, runVars>>

\* _is_valid_url(url), applied once.
CheckUrl(url) ==
    /\ fn = "none"
    /\ fn' = "_is_valid_url"
    /\ arg' = [url |-> url]
    /\ ret' = [valid |-> IsValidUrl(url)]
    /\ UNCHANGED <<parserVars, runVars>>

NextFn ==
    \/ \E url \in UrlInputs : CheckUrl(url)
    \/ \E output \in OutputMaps : ApplyValidate(output)

SpecFn == Init /\ [][NextFn]_vars

(***************************************************************************)
(* run_research                                                            *)
(***************************************************************************)

\* The query test without the trimming.
QueryEmptyUntrimmed(q) == q = ""

\* not query or not query.strip()
QueryEmpty(q) == q = "" \/ Strip(q) = ""

\* bool(x) of what a collaborator returned: None, an empty string and an
\* empty list are false.
Truthy(x) ==
    IF x.kind = "none" THEN FALSE
    ELSE IF x.kind = "list" THEN x.items # <<>>
    ELSE x.v # ""

\* The test of the search text without the trimming.
SearchCheckUntrimmed(sr) == IF ~Truthy(sr) THEN "empty" ELSE "results"

\* if not search_results or search_results.strip() == "": a list that is not
\* empty has no strip and raises AttributeError.
SearchCheck(sr) ==
    IF ~Truthy(sr) THEN "empty"
    ELSE IF sr.kind = "list" THEN "AttributeError"
    ELSE IF Strip(sr.v) = "" THEN "empty"
    ELSE "results"

\* _create_empty_result(query, message)
CreateEmptyResult(q, message) ==
    [title      |-> "Research Results: " \o q,
     summary    |-> message,
     key_points |-> <<"No key points available due to search failure">>,
     sources    |-> <<>>]

NoResultsMessage == "No search results found for this query."

Queries == {"", "   ", "\t\n", "AI in health", " padded query ", "x"}

\* What self.search.run may do: return a text, None or a list, or raise.
SearchOutcomes ==
    {Value("str", x, <<>>) : x \in {"", "   ", " \n\t", Snippets[1], Snippets[2], "no links"}}
    \cup {Value("none", "", <<>>),
          Value("list", "", <<>>),
          Value("list", "", <<"first snippet", "second snippet">>),
          Value("raise", "SerpAPI request failed", <<>>)}

\* What chain.run may do: return a text, an object with a content attribute
\* or a dict with a text key, or raise.
LLMOutcomes ==
    {Value(k, x, <<>>) : k \in {"str", "content", "dict"},
                         x \in ConcInputs \cup {"", TestMalformedInput}}
    \cup {Value("raise", "LLM request failed", <<>>)}

\* An exception leaves run_research: the except branch logs it and re-raises.
Raise(message) ==
    /\ rr_pc' = "raised"
    /\ rr_error' = message

\* run_research(q) up to the search: the locals are fresh, and an empty query
\* raises ValueError.
RunResearch(q) ==
    /\ rr_pc \in {"idle", "done", "raised"}
    /\ query' = q
    /\ search_results' = Unset /\ raw_output' = Unset
    /\ rr_result' = <<>> /\ calls' = <<>>
    /\ IF QueryEmpty(q)
       THEN Raise("Query cannot be empty")
       ELSE rr_pc' = "search" /\ rr_error' = ""
    /\ UNCHANGED <<parserVars, fnVars>>

\* search_results = self.search.run(query) and the test of what it returned.
Search(sr) ==
    /\ rr_pc = "search"
    /\ calls' = Append(calls, "search")
    /\ IF sr.kind = "raise"
       THEN Raise(sr.v) /\ UNCHANGED <<search_results, rr_result>>
       ELSE /\ search_results' = sr
            /\ IF SearchCheck(sr) = "empty"
               THEN /\ rr_pc' = "done"
                    /\ rr_result' = CreateEmptyResult(query, NoResultsMessage)
                    /\ UNCHANGED rr_error
               ELSE IF SearchCheck(sr) = "AttributeError"
               THEN Raise("'list' object has no attribute 'strip'") /\ UNCHANGED rr_result
               ELSE rr_pc' = "llm" /\ UNCHANGED <<rr_result, rr_error>>
    /\ UNCHANGED <<query, raw_output, parserVars, fnVars>>

\* chain.run(query=..., search_results=...) and the conversion of what it
\* returned to its text.
CallLLM(out) ==
    /\ rr_pc = "llm"
    /\ calls' = Append(calls, "llm")
    /\ IF out.kind = "raise"
       THEN Raise(out.v) /\ UNCHANGED raw_output
       ELSE /\ raw_output' = Value("str", out.v, <<>>)
            /\ rr_pc' = "parse"
            /\ UNCHANGED rr_error
    /\ UNCHANGED <<query, search_results, rr_result, parserVars, fnVars>>

\* parsed_output = self._parse_research_note(raw_output)
ParseOutput ==
    /\ rr_pc = "parse"
    /\ calls' = Append(calls, "parser")
    /\ rr_result' = ParseResearchNote(raw_output.v)
    /\ rr_pc' = "validate"
    /\ UNCHANGED <<query, search_results, raw_output, rr_error, parserVars, fnVars>>

\* self._validate_research_output(parsed_output); return parsed_output
ValidateOutput ==
    /\ rr_pc = "validate"
    /\ calls' = Append(calls, "validator")
    /\ IF ValidateResearchOutput(rr_result) = "ValueError"
       THEN Raise(ValidationError(rr_result))
       ELSE rr_pc' = "done" /\ UNCHANGED rr_error
    /\ UNCHANGED <<query, search_results, raw_output, rr_result, parserVars, fnVars>>

NextRun ==
    \/ \E q \in Queries : RunResearch(q)
    \/ \E sr \in SearchOutcomes : Search(sr)
    \/ \E out \in LLMOutcomes : CallLLM(out)
    \/ ParseOutput
    \/ ValidateOutput

SpecRun == Init /\ [][NextRun]_vars

(***************************************************************************)
(* Properties                                                              *)
(***************************************************************************)

\* The rendered notes with the sections they were rendered from.
RenderedTable == {<<Render(d), d>> : d \in WellFormed}

\* The rendered notes whose k source lines are the first k of the pool.
FromPoolStart(d) == \E k \in 1..MaxSrcLines : d.srcs = SrcLines(1, k)

Last(seq) == seq[Len(seq)]

\* C1: a call never ends with an exception leaving it: once a step of it has
\* raised, control is in the except branch or the call has returned, and the
\* note it returns is the error note (title "Research Results", summary
\* "Error parsing research results", no key points, no sources), whatever the
\* scan had collected.
C1_RaiseYieldsErrorNote ==
    \A t \in Threads :
        raised[t] =>
            /\ pc[t] \in {"except", "done"}
            /\ pc[t] = "done" =>
                 result[t] = [title      |-> "Research Results",
                              summary    |-> "Error parsing research results",
                              key_points |-> <<>>,
                              sources    |-> <<>>]

\* A call that raised after its scan had collected a title, key points and
\* sources, and returned none of them.
C1_Witness ==
    \E t \in Threads :
        /\ pc[t] = "done" /\ raised[t]
        /\ locals[t].title = "AI in Health"
        /\ Len(locals[t].key_points) = 2
        /\ Len(locals[t].sources) = 2
        /\ result[t].sources = <<>>

\* C2: every note a call returns, on each return path, has exactly the keys
\* title, summary, key_points and sources, and _validate_research_output
\* accepts it.
C2_AllFieldsPresent ==
    \A t \in Threads :
        pc[t] = "done" =>
            /\ DOMAIN result[t] = {"title", "summary", "key_points", "sources"}
            /\ ValidateResearchOutput(result[t]) = "ok"

\* A note returned by the except branch, with the four keys.
C2_Witness ==
    \E t \in Threads :
        /\ pc[t] = "done" /\ raised[t]
        /\ raw_text[t] = TestMalformedInput
        /\ DOMAIN result[t] = RequiredFields

\* C3: a call on a text whose trimmed length is below 10 (the empty text
\* included) returns the all-defaults note.
C3_ShortTextDefaults ==
    \A t \in Threads :
        (pc[t] = "done" /\ Len(Strip(raw_text[t])) < 10) =>
            result[t] = [title      |-> "Research Results",
                         summary    |-> "No summary available",
                         key_points |-> <<>>,
                         sources    |-> <<>>]

\* A call on a text of nine characters between blanks returned the defaults.
C3_Witness ==
    \E t \in Threads :
        /\ pc[t] = "done"
        /\ raw_text[t] = "  123456789 \n"
        /\ result[t].summary = "No summary available"
        /\ ~raised[t]

\* C4: for a well-formed note with a TITLE:, SUMMARY:, KEY POINTS: and
\* SOURCES: section, each with a body, the returned title is the TITLE: text,
\* the summary is the SUMMARY: text, and key_points and sources hold one
\* entry per bullet line and per bracketed line.
C4_WellFormedFieldsMatch ==
    \A t \in Threads : \A p \in RenderedTable :
        (pc[t] = "done" /\ raw_text[t] = p[1] /\ FromPoolStart(p[2])) =>
            /\ result[t].title = p[2].title
            /\ result[t].summary = SummaryBody(p[2])
            /\ result[t].key_points = p[2].points
            /\ Len(result[t].sources) = Len(p[2].srcs)

\* C5: the returned summary is the text after the SUMMARY: marker on the
\* marker's line together with the summary lines that follow, joined with
\* single spaces.  Stated of the calls that returned without raising.
C5_SummaryIncludesMarkerLine ==
    \A t \in Threads : \A p \in RenderedTable :
        (pc[t] = "done" /\ ~raised[t] /\ raw_text[t] = p[1]) =>
            result[t].summary = SummaryBody(p[2])

\* C6: a well-formed note that lists fewer than three sources still yields
\* its title, its key points and its sources, and never the error note.
C6_FewSourcesStillParsed ==
    \A t \in Threads : \A p \in RenderedTable :
        (/\ pc[t] = "done" /\ raw_text[t] = p[1]
         /\ FromPoolStart(p[2]) /\ Len(p[2].srcs) < 3) =>
            /\ result[t].summary # "Error parsing research results"
            /\ result[t].title = p[2].title
            /\ result[t].key_points = p[2].points
            /\ Len(result[t].sources) = Len(p[2].srcs)

\* No line of the text starts, in any letter case, with a section marker.
NoSectionMarker(raw) ==
    \A i \in 1..Len(Split(raw, "\n")) :
        LET line == Strip(Split(raw, "\n")[i])
        IN  ~StartsWithAny(Upper(line),
                {Chars(m) : m \in {"TITLE:", "SUMMARY:", "KEY POINTS:", "SOURCES:",
                                   "IMPORTANT GUIDELINES:"}})

\* No blank-line-separated paragraph of the text is longer than 50 characters.
NoLongParagraph(raw) ==
    \A i \in 1..Len(Split(raw, "\n\n")) : Len(Strip(Split(raw, "\n\n")[i])) <= 50

\* C7: a call on a text of at least 10 characters without any section marker
\* and without a paragraph longer than 50 characters returns the all-defaults
\* note.
C7_UnstructuredTextDefaults ==
    \A t \in Threads :
        (/\ pc[t] = "done"
         /\ Len(Strip(raw_text[t])) >= 10
         /\ NoSectionMarker(raw_text[t])
         /\ NoLongParagraph(raw_text[t])) =>
            result[t] = [title      |-> "Research Results",
                         summary    |-> "No summary available",
                         key_points |-> <<>>,
                         sources    |-> <<>>]

\* C8: a call on the text of the first call that returned, made at any later
\* time and on any thread of the agent, returns the note that call returned.
C8_SameTextSameNote ==
    \A t \in Threads :
        (pc[t] = "done" /\ first # <<>> /\ raw_text[t] = first[1]) =>
            result[t] = first[2]

\* Every thread has returned from a call on the first call's text, so all but
\* one of these calls came after it; the note holds three sources.
C8_Witness ==
    /\ first # <<>>
    /\ \A t \in Threads :
        /\ pc[t] = "done"
        /\ raw_text[t] = first[1]
        /\ result[t] = first[2]
    /\ Len(first[2].sources) = 3

\* The note of each text of the concurrent calls when parsed alone.
AloneNote == [r \in ConcInputs |-> ParseResearchNote(r)]

\* C9: under every interleaving of the steps of concurrent calls, each call
\* returns the note its text yields when parsed alone.
C9_NoInterference ==
    \A t \in Threads :
        pc[t] = "done" => result[t] = AloneNote[raw_text[t]]

\* A call returned its three sources while a call on another text, on another
\* thread, was in the middle of its scan in another section.
C9_Witness ==
    \E t \in Threads : \E u \in Threads \ {t} :
        /\ pc[t] = "done"
        /\ Len(result[t].sources) = 3
        /\ pc[u] = "scan" /\ idx[u] > 2
        /\ raw_text[u] # raw_text[t]
        /\ locals[u].current_section = "key_points"

\* The position (1-based) of the first occurrence of character c in s, as a
\* set: empty when c does not occur.
FirstPos(s, c) ==
    {i \in 1..Len(s) :
        /\ SubSeq(s, i, i) = c
        /\ \A k \in 1..(i - 1) : SubSeq(s, k, k) # c}

\* The position of the last occurrence of character c in s, as a set.
LastPos(s, c) ==
    {i \in 1..Len(s) :
        /\ SubSeq(s, i, i) = c
        /\ \A k \in (i + 1)..Len(s) : SubSeq(s, k, k) # c}

\* The position of the first occurrence of c after position i, as a set.
FirstPosAfter(s, c, i) ==
    {j \in (i + 1)..Len(s) :
        /\ SubSeq(s, j, j) = c
        /\ \A k \in (i + 1)..(j - 1) : SubSeq(s, k, k) # c}

\* Thread t is about to scan, in the SOURCES section, a bracketed line whose
\* content holds a "(" and a ")".
AtParenSourceLine(t) ==
    /\ pc[t] = "scan"
    /\ locals[t].current_section = "sources"
    /\ StartsWith(Strip(lines[t][idx[t]]), "[")
    /\ FirstPos(ContentAfterBracket(Strip(lines[t][idx[t]])), "(") # {}
    /\ FirstPos(ContentAfterBracket(Strip(lines[t][idx[t]])), ")") # {}

\* C10 as amended: for a source line "[n] Title (URL)" the title is the
\* trimmed text before the first "(" of the content and the URL is the
\* trimmed text between the first "(" and the first ")" of the content (empty
\* when that ")" comes before the "("), cleaned up as every URL is; a title
\* longer than 3 characters makes the line add exactly this source.
C10_FirstParenPair ==
    [][\A t \in Threads :
        AtParenSourceLine(t) =>
            LET c == ContentAfterBracket(Strip(lines[t][idx[t]]))
            IN  \A i \in FirstPos(c, "(") : \A j \in FirstPos(c, ")") :
                    Len(Strip(SubSeq(c, 1, i - 1))) > 3 =>
                        locals'[t].sources =
                            Append(locals[t].sources,
                                   [title |-> Strip(SubSeq(c, 1, i - 1)),
                                    url   |-> CleanUrl(IF i < j
                                                       THEN Strip(SubSeq(c, i + 1, j - 1))
                                                       ELSE "")])]_vars

\* The line "[3] Report (v1.2) (https://x.org/r)" has been scanned and added
\* the title "Report" with the text of the first parenthesis as its URL.
C10_Witness ==
    \E t \in Threads :
        /\ pc[t] \in {"scan", "final"}
        /\ idx[t] > 1
        /\ ContentAfterBracket(Strip(lines[t][idx[t] - 1])) = "Report (v1.2) (https://x.org/r)"
        /\ locals[t].sources # <<>>
        /\ Last(locals[t].sources) = [title |-> "Report", url |-> "https://v1.2"]

\* C10 as stated: the URL is the text between the last "(" of the content and
\* the ")" that follows it, and the title is the trimmed text before that "(",
\* also when the title holds an earlier parenthesis.
C10_LastParenPair ==
    [][\A t \in Threads :
        AtParenSourceLine(t) =>
            LET c == ContentAfterBracket(Strip(lines[t][idx[t]]))
            IN  \A i \in LastPos(c, "(") : \A j \in FirstPosAfter(c, ")", i) :
                    Len(Strip(SubSeq(c, 1, i - 1))) > 3 =>
                        locals'[t].sources =
                            Append(locals[t].sources,
                                   [title |-> Strip(SubSeq(c, 1, i - 1)),
                                    url   |-> CleanUrl(Strip(SubSeq(c, i + 1, j - 1)))])]_vars

\* The positions (1-based) at which the first occurrence of sep starts in s,
\* as a set: empty when sep does not occur.
FirstSepPos(s, sep) ==
    {i \in 1..(Len(s) - Len(sep) + 1) :
        /\ SubSeq(s, i, i + Len(sep) - 1) = sep
        /\ \A k \in 1..(i - 1) : SubSeq(s, k, k + Len(sep) - 1) # sep}

\* Thread t is about to scan a bracketed line of the SOURCES section.
AtSourceLine(t) ==
    /\ pc[t] = "scan"
    /\ locals[t].current_section = "sources"
    /\ StartsWith(Strip(lines[t][idx[t]]), "[")

\* The content holds a parenthesised text: a "(" with a ")" somewhere after
\* it.
UsablePair(c) ==
    \E i \in 1..Len(c) : \E j \in (i + 1)..Len(c) :
        SubSeq(c, i, i) = "(" /\ SubSeq(c, j, j) = ")"

\* C11: for a source line whose content has no parenthesised URL (no "(" with
\* a ")" after it) and holds " - ", the title is the trimmed text before the
\* first " - " and the URL is the trimmed text after it, cleaned up as every
\* URL is; a title longer than 3 characters makes the line add exactly this
\* source.
C11_DashSplitOnceAtFirst ==
    [][\A t \in Threads :
        AtSourceLine(t) =>
            LET c == ContentAfterBracket(Strip(lines[t][idx[t]]))
            IN  ~UsablePair(c) =>
                    \A i \in FirstSepPos(c, " - ") :
                        Len(Strip(SubSeq(c, 1, i - 1))) > 3 =>
                            locals'[t].sources =
                                Append(locals[t].sources,
                                       [title |-> Strip(SubSeq(c, 1, i - 1)),
                                        url   |-> CleanUrl(Strip(SubSeq(c, i + 3, Len(c))))])]_vars

\* The line adds the source whose title is the whole content and whose URL is
\* empty.
AddsTitleOnly(t, c) ==
    locals'[t].sources = Append(locals[t].sources, [title |-> c, url |-> ""])

\* C12: a source line whose content has neither a usable "(...)" pair (a "("
\* with a ")" after it) nor a " - " is parsed as title-only: with a content
\* longer than 3 characters it adds the source whose title is the entire
\* content and whose URL is the empty string.  A content that has a "(" with
\* no ")" and no " - " is among these.
C12_NoPairNoSeparatorTitleOnly ==
    [][\A t \in Threads :
        AtSourceLine(t) =>
            LET c == ContentAfterBracket(Strip(lines[t][idx[t]]))
            IN  (/\ ~UsablePair(c)
                 /\ FirstSepPos(c, " - ") = {}
                 /\ Len(c) > 3) => AddsTitleOnly(t, c)]_vars

\* Thread t is about to scan a line of the key_points section that starts
\* with "-".
AtBulletLine(t) ==
    /\ pc[t] = "scan"
    /\ locals[t].current_section = "key_points"
    /\ StartsWith(Strip(lines[t][idx[t]]), "-")

\* C13: in the key_points section a line starting with "-" contributes its
\* text without the leading bullet, trimmed and with its inner hyphens, when
\* that text is longer than 10 characters, and nothing otherwise.
C13_BulletKeepsInnerHyphens ==
    [][\A t \in Threads :
        AtBulletLine(t) =>
            LET line == Strip(lines[t][idx[t]])
                body == Strip(SubSeq(line, 2, Len(line)))
            IN  locals'[t].key_points =
                    IF Len(body) > 10
                    THEN Append(locals[t].key_points, body)
                    ELSE locals[t].key_points]_vars

\* The host of a URL: the text between the scheme and the first "/" after it.
HostOf(url) ==
    LET r == IF StartsWith(url, "https://") THEN SubSeq(url, 9, Len(url))
             ELSE SubSeq(url, 8, Len(url))
    IN  IF Contains(r, "/") THEN SubSeq(r, 1, Find(r, "/")) ELSE r

\* An http or https URL without forbidden characters whose host holds a dot
\* and ends in a label of at least two letters.
StrictUrl(url) ==
    /\ StartsWithAny(url, {"http://", "https://"})
    /\ AllAllowed(url)
    /\ \E i \in 2..(Len(HostOf(url)) - 2) :
          /\ SubSeq(HostOf(url), i, i) = "."
          /\ AllLetters(SubSeq(HostOf(url), i + 1, Len(HostOf(url))))

\* The URL holds a placeholder signature, in any letter case.
HoldsPlaceholder(url) ==
    \/ \E q \in {"NO%20URL", "EXAMPLE.COM", "PLACEHOLDER", "...", "%20%20"} :
          Contains(Upper(url), Chars(q))
    \/ Upper(url) \in {Chars("HTTP://"), Chars("HTTPS://")}

\* C14: _is_valid_url returns true only for a strict http/https URL with a
\* dotted host that holds no placeholder signature and is 15 to 500
\* characters long; it is false for "https://example.com/page" and "http://"
\* and true for "https://news.site.org/a1".
C14_ValidOnlyIfStrict ==
    fn = "_is_valid_url" =>
        /\ ret.valid => /\ StrictUrl(arg.url)
                        /\ ~HoldsPlaceholder(arg.url)
                        /\ Len(arg.url) >= 15 /\ Len(arg.url) <= 500
        /\ arg.url \in {"https://example.com/page", "http://"} => ~ret.valid
        /\ arg.url = "https://news.site.org/a1" => ret.valid

\* C15: the note a call returns after its scan found three or more sources
\* holds exactly these; after a scan that found n < 3 sources it holds at most
\* three, the first n of which are the sources of the scan in their order.
C15_ParsedSourcesKept ==
    \A t \in Threads :
        pc[t] = "done" =>
            LET n == Len(locals[t].sources)
            IN  /\ n >= 3 => result[t].sources = locals[t].sources
                /\ n < 3 =>
                     /\ Len(result[t].sources) <= 3
                     /\ Len(result[t].sources) >= n
                     /\ SubSeq(result[t].sources, 1, n) = locals[t].sources

\* The URLs of a list of sources.
UrlsOf(sources) == [k \in 1..Len(sources) |-> sources[k].url]

\* C17: _validate_research_output raises ValueError "Missing required field"
\* exactly when one of the keys title, summary, key_points, sources is absent
\* from the output map; with the four keys present it returns, whatever their
\* values.
C17_RaisesIffKeyAbsent ==
    fn = "_validate_research_output" =>
        /\ ret.raised <=>
              \E k \in {"title", "summary", "key_points", "sources"} :
                  k \notin DOMAIN arg.output
        /\ ret.raised => StartsWith(ret.error, "Missing required field")

\* An output map with the four keys and empty values was validated: nothing
\* was raised and a warning was logged for each field.
C17_Witness ==
    /\ fn = "_validate_research_output"
    /\ DOMAIN arg.output = {"title", "summary", "key_points", "sources"}
    /\ arg.output["title"] = "" /\ arg.output["sources"] = <<>>
    /\ ~ret.raised
    /\ ret.warnings = {"title", "summary", "key_points", "sources"}

\* Every character of s is white space (the empty string included).
IsBlank(s) == \A i \in 1..Len(s) : IsSpace(SubSeq(s, i, i))

\* C18: a call of run_research with an empty or whitespace-only query ends by
\* raising ValueError "Query cannot be empty", and no collaborator (search
\* tool, LLM chain, parser, validator) is invoked at any point of the call.
C18_EmptyQueryRaisesFirst ==
    (rr_pc # "idle" /\ IsBlank(query)) =>
        /\ rr_pc = "raised"
        /\ rr_error = "Query cannot be empty"
        /\ calls = <<>>

\* A call with a query of three spaces raised "Query cannot be empty" without
\* any invocation.
C18_Witness ==
    /\ rr_pc = "raised"
    /\ query = "   "
    /\ rr_error = "Query cannot be empty"
    /\ calls = <<>>

\* What the search returned is None, an empty list or a text of white space
\* only.
SearchCameBackEmpty ==
    \/ search_results.kind = "none"
    \/ search_results.kind = "list" /\ search_results.items = <<>>
    \/ search_results.kind = "str" /\ IsBlank(search_results.v)

\* C19: once the search has returned an empty or whitespace-only result, the
\* call has returned the empty result for its query, has not raised, and has
\* invoked the search tool only.
C19_EmptySearchGivesEmptyResult ==
    SearchCameBackEmpty =>
        /\ rr_pc = "done"
        /\ rr_result = [title      |-> "Research Results: " \o query,
                        summary    |-> "No search results found for this query.",
                        key_points |-> <<"No key points available due to search failure">>,
                        sources    |-> <<>>]
        /\ rr_error = ""
        /\ calls = <<"search">>

\* A search for "AI in health" came back with blanks only and the call
\* returned the empty result.
C19_Witness ==
    /\ rr_pc = "done"
    /\ query = "AI in health"
    /\ search_results.kind = "str" /\ search_results.v = " \n\t"
    /\ rr_result.title = "Research Results: AI in health"
    /\ calls = <<"search">>

\* The URL is empty or begins with "http://" or "https://".
EmptyOrSchemed(url) ==
    url = "" \/ StartsWithAny(url, {"http://", "https://"})

\* s without the occurrences of sub.
Without(s, sub) == Join(Split(s, sub), "")

\* The URL the claim gives for the extracted text x: spaces and "%20" taken
\* out, then "https://" in front when there is no scheme but a ".", and
\* nothing when there is neither.
NormalisedUrl(x) ==
    LET y == Without(Without(x, " "), "%20")
    IN  IF EmptyOrSchemed(y) THEN y
        ELSE IF \E i \in 1..Len(y) : SubSeq(y, i, i) = "." THEN "https://" \o y
        ELSE ""

\* C20: every source of a note a call returns has a URL that is empty or
\* begins with "http://" or "https://"; and the URL a source line adds is the
\* extracted URL without its spaces and "%20", with "https://" in front when
\* it has no scheme but a ".", and empty when it has neither.
C20_UrlsEmptyOrSchemed ==
    [][\A t \in Threads :
        /\ pc'[t] = "done" =>
              \A k \in 1..Len(result'[t].sources) :
                  EmptyOrSchemed(result'[t].sources[k].url)
        /\ (AtSourceLine(t) /\ locals'[t].sources # locals[t].sources) =>
              LET c == ContentAfterBracket(Strip(lines[t][idx[t]]))
                  u == Last(locals'[t].sources).url
              IN  /\ EmptyOrSchemed(u)
                  /\ u = NormalisedUrl(ExtractTitleUrl(c).url)]_vars

\* A call returned three sources: one whose URL lost its spaces and "%20",
\* one whose text without scheme and "." was emptied, one with a scheme.
C20_Witness ==
    \E t \in Threads :
        /\ pc[t] = "done" /\ ~raised[t]
        /\ UrlsOf(result[t].sources) = <<"https://spaced.org/abc", "", "http://h">>

\* The title the claim gives for the extracted text x when n sources are
\* already accepted.
NormalisedTitle(x, n) ==
    IF Len(x) = 0 THEN "Source " \o IntToStr(n + 1) ELSE x

\* C21: every source of a note a call returns has a title that is longer
\* than 3 characters after trimming; a source line whose normalised title has
\* 3 or fewer characters adds no entry, any other adds one entry under its
\* normalised title, and an empty title is normalised to "Source k", k being
\* the number of sources accepted so far plus 1.
C21_SourceTitlesLong ==
    [][\A t \in Threads :
        /\ pc'[t] = "done" =>
              \A k \in 1..Len(result'[t].sources) :
                  Len(Strip(result'[t].sources[k].title)) > 3
        /\ AtSourceLine(t) =>
              LET c == ContentAfterBracket(Strip(lines[t][idx[t]]))
                  n == Len(locals[t].sources)
                  title == NormalisedTitle(ExtractTitleUrl(c).title, n)
              IN  IF Len(title) <= 3
                  THEN locals'[t].sources = locals[t].sources
                  ELSE /\ Len(locals'[t].sources) = n + 1
                       /\ SubSeq(locals'[t].sources, 1, n) = locals[t].sources
                       /\ Last(locals'[t].sources).title = title]_vars

\* A call returned the sources of seven lines: the titles of one, two and
\* three characters added nothing, the empty titles became "Source k".
C21_Witness ==
    \E t \in Threads :
        /\ pc[t] = "done" /\ ~raised[t]
        /\ raw_text[t] = TitleLenInput
        /\ [k \in 1..Len(result[t].sources) |-> result[t].sources[k].title]
             = <<"abcd", "Source 2", "Source 3", "Long Enough", "Source 5">>

\* The formal section markers with the section each one opens.
MarkerSections ==
    { <<"TITLE:", "title">>, <<"SUMMARY:", "summary">>,
      <<"KEY POINTS:", "key_points">>, <<"SOURCES:", "sources">> }

\* The trimmed line begins, in some letter case, with the marker.
BeginsWithMarker(line, marker) ==
    /\ Len(line) >= Len(marker)
    /\ Upper(SubSeq(line, 1, Len(marker))) = Chars(marker)

\* C22: a trimmed line that begins with a section marker in any letter case
\* switches the current section to the marker's section, and for TITLE: the
\* title becomes the trimmed text that follows the marker, the marker itself
\* not being part of it.
C22_TitleIsTextAfterMarker ==
    [][\A t \in Threads :
        pc[t] = "scan" =>
            LET line == Strip(lines[t][idx[t]])
            IN  \A m \in MarkerSections :
                    BeginsWithMarker(line, m[1]) =>
                        /\ locals'[t].current_section = m[2]
                        /\ m[1] = "TITLE:" =>
                              locals'[t].title =
                                  Strip(SubSeq(line, Len(m[1]) + 1, Len(line)))]_vars

\* The lines joined with single spaces.
RECURSIVE SpaceJoined(_)
SpaceJoined(ls) ==
    IF Len(ls) = 0 THEN ""
    ELSE IF Len(ls) = 1 THEN ls[1]
    ELSE ls[1] \o " " \o SpaceJoined(Tail(ls))

\* C23: when the scan reaches a KEY POINTS: or a SOURCES: marker while the
\* summary accumulator is not empty, summary becomes the accumulated lines
\* joined with single spaces, whatever summary held before, and the section
\* switches; and an accumulator still pending after the last line is
\* flushed into a summary that is still the default.
C23_MarkersFlushAlike ==
    [][\A t \in Threads :
        /\ (pc[t] = "scan" /\ Len(locals[t].summary_lines) > 0) =>
              LET line == Strip(lines[t][idx[t]])
              IN  \A m \in {<<"KEY POINTS:", "key_points">>, <<"SOURCES:", "sources">>} :
                      BeginsWithMarker(line, m[1]) =>
                          /\ locals'[t].summary = SpaceJoined(locals[t].summary_lines)
                          /\ locals'[t].current_section = m[2]
        /\ (/\ pc[t] = "final"
            /\ Len(locals[t].summary_lines) > 0
            /\ locals[t].summary = "No summary available") =>
              locals'[t].summary = SpaceJoined(locals[t].summary_lines)]_vars

\* The positions of the terminator lines of the text.
TerminatorLines(raw) ==
    {i \in 1..Len(Split(raw, "\n")) :
        BeginsWithMarker(Strip(Split(raw, "\n")[i]), "IMPORTANT GUIDELINES:")}

\* The text up to and including its first terminator line.
UpToTerminator(raw) ==
    LET ls == Split(raw, "\n")
        i  == CHOOSE i \in TerminatorLines(raw) : \A j \in TerminatorLines(raw) : i <= j
    IN  Join(SubSeq(ls, 1, i), "\n")

\* C24: IMPORTANT GUIDELINES: ends the note: no line after the first
\* terminator line has a part in any field of the result, so a call on a text
\* with a terminator returns the note of the text cut after its first
\* terminator line.
C24_NothingAfterTerminator ==
    \A t \in Threads :
        (pc[t] = "done" /\ TerminatorLines(raw_text[t]) # {}) =>
            result[t] = ParseResearchNote(UpToTerminator(raw_text[t]))

\* The trimmed lines of the text that are not empty.
RECURSIVE NonBlank(_)
NonBlank(ls) ==
    IF Len(ls) = 0 THEN <<>>
    ELSE IF Len(Strip(ls[1])) = 0 THEN NonBlank(Tail(ls))
    ELSE <<Strip(ls[1])>> \o NonBlank(Tail(ls))

\* The line begins with one of the formal markers, in any letter case.
BeginsWithAnyMarker(line) ==
    \E m \in {"TITLE:", "SUMMARY:", "KEY POINTS:", "SOURCES:", "IMPORTANT GUIDELINES:"} :
        BeginsWithMarker(line, m)

\* The text has a TITLE: line, and nothing follows the marker on any of them.
TitleWithoutBody(raw) ==
    LET ls == NonBlank(Split(raw, "\n"))
    IN  /\ \E i \in 1..Len(ls) : BeginsWithMarker(ls[i], "TITLE:")
        /\ \A i \in 1..Len(ls) : BeginsWithMarker(ls[i], "TITLE:") => Len(ls[i]) = 6

\* The text has a SUMMARY: line, nothing follows the marker on any of them,
\* and the next line that is not blank, if any, begins with a marker.
SummaryWithoutBody(raw) ==
    LET ls == NonBlank(Split(raw, "\n"))
    IN  /\ \E i \in 1..Len(ls) : BeginsWithMarker(ls[i], "SUMMARY:")
        /\ \A i \in 1..Len(ls) :
              BeginsWithMarker(ls[i], "SUMMARY:") =>
                  /\ Len(ls[i]) = 8
                  /\ i < Len(ls) => BeginsWithAnyMarker(ls[i + 1])

\* C25: a call that returns without raising leaves the title at "Research
\* Results" when the TITLE: marker has nothing after it, and the summary at
\* "No summary available" when the SUMMARY: section has no body.
C25_EmptyBodyKeepsDefault ==
    \A t \in Threads :
        (pc[t] = "done" /\ ~raised[t]) =>
            /\ TitleWithoutBody(raw_text[t]) => result[t].title = "Research Results"
            /\ SummaryWithoutBody(raw_text[t]) =>
                  result[t].summary = "No summary available"

\* The text begins with one of the formal markers as written.
BeginsWithFormalMarker(s) ==
    \E m \in {"TITLE:", "SUMMARY:", "KEY POINTS:", "SOURCES:", "IMPORTANT GUIDELINES:"} :
        Len(s) >= Len(m) /\ SubSeq(s, 1, Len(m)) = m

\* The paragraph is longer than 50 characters and begins with no formal
\* section marker.
Qualifies(paragraph) ==
    Len(paragraph) > 50 /\ ~BeginsWithFormalMarker(paragraph)

\* The first paragraph of the text that qualifies, without the white space
\* around it, or the default summary when there is none.
FirstQualifying(raw) ==
    LET ps   == Split(raw, "\n\n")
        hits == {i \in 1..Len(ps) : Qualifies(Strip(ps[i]))}
    IN  IF hits = {} THEN "No summary available"
        ELSE Strip(ps[CHOOSE i \in hits : \A j \in hits : i <= j])

\* C26: a summary that is still the default when the scan is over, with
\* nothing pending, becomes the first paragraph of the raw text that is
\* longer than 50 characters and begins with no formal section marker, and
\* stays the default when no paragraph qualifies; and no returned summary
\* begins with a section marker.
C26_SummaryFromFirstParagraph ==
    [][\A t \in Threads :
        /\ (/\ pc[t] = "final"
            /\ locals[t].summary = "No summary available"
            /\ Len(locals[t].summary_lines) = 0) =>
              locals'[t].summary = FirstQualifying(raw_text[t])
        /\ pc'[t] = "done" => ~BeginsWithFormalMarker(result'[t].summary)]_vars

\* The list after is the list before, or the list before with one entry
\* more at its end.
SameOrOneMore(before, after) ==
    \/ after = before
    \/ /\ Len(after) = Len(before) + 1
       /\ SubSeq(after, 1, Len(before)) = before

\* The trimmed line begins with the character c.
BeginsWithChar(line, c) == Len(line) > 0 /\ SubSeq(line, 1, 1) = c

\* One step of the scan of thread t keeps what is collected in its order,
\* adds at most one entry at the end of one list, adds a key point only for a
\* "-" line of the key_points section and a source only for a "[" line of the
\* sources section, and adds it whether or not entries are collected already.
ScanKeepsOrder(t) ==
    pc[t] = "scan" =>
        LET f    == locals[t]
            g    == locals'[t]
            raw  == lines[t][idx[t]]
            line == Strip(raw)
        IN  /\ SameOrOneMore(f.key_points, g.key_points)
            /\ SameOrOneMore(f.sources, g.sources)
            /\ g.key_points # f.key_points =>
                  f.current_section = "key_points" /\ BeginsWithChar(line, "-")
            /\ g.sources # f.sources =>
                  f.current_section = "sources" /\ BeginsWithChar(line, "[")
            /\ g.key_points # f.key_points <=>
                  Len(ScanLineStep([f EXCEPT !.key_points = <<>>], raw).key_points) = 1
            /\ g.sources # f.sources <=>
                  Len(ScanLineStep([f EXCEPT !.sources = <<>>], raw).sources) = 1

\* C27: key_points and sources keep the order and the multiplicity of the
\* input: the scan appends the accepted entries in the order of their lines,
\* a repeated line gives a repeated entry, a bullet or bracket line outside
\* its section gives none, and the note a call returns holds the key points
\* and the sources the scan accepted.
C27_OrderAndMultiplicityKept ==
    [][\A t \in Threads :
        /\ ScanKeepsOrder(t)
        /\ pc'[t] = "done" =>
              /\ result'[t].key_points = locals'[t].key_points
              /\ result'[t].sources = locals'[t].sources]_vars

====
